---- MODULE Spec2Model ----
(***************************************************************************)
(* Model of the translation caching and concurrency-control core of        *)
(* hexo-translate-llm: the concurrency limiter and the retrying transport  *)
(* (lib/concurrency), the before_post_render filter (index.js) and the     *)
(* parts of the cache store (lib/storage.js) the filter drives.            *)
(*                                                                         *)
(* Four specifications share the variables:                                *)
(*   SpecLimiter  callers of run(fn) on one limiter (FairSpecLimiter adds  *)
(*                fairness of settlements and continuations);              *)
(*   SpecFetch    one call of fetchWithRetry, with the clock of an attempt;*)
(*   SpecHook     overlapping invocations of the filter over the cache     *)
(*                store and the limiter, fetchWithRetry taken as one step. *)
(*   SpecStorage  direct calls of Storage.save racing Storage.close, with  *)
(*                the remote upsert of each save in flight.                *)
(***************************************************************************)
EXTENDS Integers, Sequences, FiniteSets, TLC

\* ------------------------------------------------------------------------
\* Bounds
\* ------------------------------------------------------------------------
NCallers == 3
MaxConcurrency == 2
MaxRetries == 2
TimeoutTicks == 2      \* options.timeout, in clock ticks
MaxElapsed == 4        \* how long the clock of one attempt is followed
NInvocations == 2      \* overlapping before_post_render invocations
NSaves == 2            \* direct calls of Storage.save that are followed
MaxTextLen == 4        \* longest text, in tokens, handed to a text function
MaxBlocks == 2         \* most code blocks handed to restoreCodeBlocks
MaxTitleLen == 1       \* longest title, in characters, that is fingerprinted (a body may be one longer)

\* ------------------------------------------------------------------------
\* Program constants
\* ------------------------------------------------------------------------
DefaultLimit == 2
BackoffStepMs == 2000
JitterRangeMs == 1000
DefaultRetries == 2
DefaultModel == "deepseek-ai/DeepSeek-V3.2"
CACHE_VERSION == <<"v1">>

VARIABLES
    limit,          \* the limit the limiter was created with
    variant,        \* which limiter of the repository this is
    activeCount,    \* createConcurrencyLimiter: let activeCount
    waitingQueue,   \* createConcurrencyLimiter: const waitingQueue (resolvers, by caller)
    microtasks,     \* resolved waiters whose continuation has not run yet (job queue, FIFO)
    pc,             \* position of each caller of run(fn)
    delivered,      \* what the promise returned by run(fn) settled with, per caller
    queueOrder,     \* history: callers in the order they were pushed on waitingQueue
    startOrder,     \* history: callers in the order their fn() was invoked
    \* --- fetchWithRetry (one call) ---
    retries,        \* fetchWithRetry: parameter retries
    loopI,          \* fetchWithRetry: loop variable i
    fphase,         \* position of the call: idle, fetching, reading, backoff, resolved, rejected
    timerArmed,     \* the setTimeout(() => controller.abort(), timeout) of the attempt is pending
    elapsed,        \* clock ticks since the current attempt started
    attempts,       \* number of fetch() invocations so far
    errors,         \* history: the error of every failed attempt, in order
    ferror,         \* the error fetchWithRetry rejected with
    fresult,        \* the attempt whose parsed body fetchWithRetry resolved with
    delay,          \* fetchWithRetry: const delay of the current backoff wait, in ms
    \* --- plugin configuration and cache store ---
    cfg,            \* hexo.config.llm_translation: "absent", "disabled" or "enabled"
    apiKey,         \* process.env.LLM_API_KEY is set
    cfgModel,       \* config.model ("" when unset)
    isDbEnabled,    \* Storage.isDbEnabled
    cache,          \* Storage.cache: source -> record
    cacheFile,      \* content of ai-translate-cache.json
    loadState,      \* loadPromise: "none" (null), "loading" (pending), "loaded" (fulfilled)
    globalTitlePairs,
    loadCalls,      \* history: number of times storage.load() was invoked
    isClosed,       \* Storage.isClosed
    pool,           \* Storage.pool: "none" (null), "open", or "ended" (pool.end() was called)
    slog,           \* messages Storage wrote to hexo.log.error
    saves,          \* position of each direct call of Storage.save, its key, and the
                    \* record its pending upsert carries
    remote,         \* rows of the remote table hexo_translate_cache, by key
    \* --- before_post_render invocations ---
    hpc,            \* position of each invocation of the filter
    item,           \* the data object each invocation received, as received
    ret,            \* title and content of the data object each invocation returned
    path,           \* how each invocation ended: skipped, hit, succeeded, failed
    calls,          \* number of requests handed to the transport (fetchWithRetry) by each invocation
    translated,     \* result of translateContent held by the invocation while it saves
    logged,         \* what each invocation wrote to hexo.log: level and the title it names
    answered,       \* history: the backend reply translateContent received, per invocation
    \* --- text functions applied to one input ---
    tfn,            \* which function was applied ("none" before any)
    tin,            \* the arguments it was applied to
    tout            \* what it returned or threw, as a record

limiterVars == <<limit, variant, activeCount, waitingQueue, microtasks, pc, delivered,
                 queueOrder, startOrder>>

fetchVars == <<retries, loopI, fphase, timerArmed, elapsed, attempts, errors, ferror,
               fresult, delay>>

storeVars == <<cfg, apiKey, cfgModel, isDbEnabled, cache, cacheFile, loadState,
               globalTitlePairs, loadCalls, isClosed, pool, slog, saves, remote>>

hookVars == <<hpc, item, ret, path, calls, translated, logged, answered>>

textVars == <<tfn, tin, tout>>

vars == <<limiterVars, fetchVars, storeVars, hookVars, textVars>>

Callers == 1..NCallers
Kinds == {"ok", "err"}
NoOutcome == [op |-> 0, kind |-> "none"]

\* ------------------------------------------------------------------------
\* Data: content items, cache records, fingerprint, wrapped artifact
\* ------------------------------------------------------------------------
Invs == 1..NInvocations
Sources == {"a.md", "b.md"}

\* a data object handed to the filter (strings are sequences of characters)
Item(src, title, content, layout, nt) ==
    [source |-> src, title |-> title, content |-> content, layout |-> layout,
     no_translate |-> nt]

NoItem == Item("", <<>>, <<>>, "", FALSE)

\* posts with a body: a.md with two different bodies, and b.md
PostItems ==
    { Item("a.md", <<"t">>, <<"b">>, "post", FALSE),
      Item("a.md", <<"t">>, <<"b", "t">>, "post", FALSE),
      Item("b.md", <<"t">>, <<"b">>, "post", FALSE) }

\* an item without body, a page, and a post that opts out
SkipItems ==
    { Item("a.md", <<"t">>, <<>>, "post", FALSE),
      Item("a.md", <<"t">>, <<"b">>, "page", FALSE),
      Item("a.md", <<"t">>, <<"b">>, "post", TRUE) }

Items == PostItems \cup SkipItems

\* a buggy variant of Skipped: the opt-out flag is not looked at
SkippedIgnoringOptOut(it) ==
    \/ it.content = <<>>
    \/ cfg # "enabled"
    \/ ~apiKey
    \/ it.layout # "post"

\* if (!data.content || !config || !config.enable || !API_KEY ||
\*     data.layout !== 'post' || data.no_translate) return data
Skipped(it) ==
    \/ it.content = <<>>
    \/ cfg # "enabled"
    \/ ~apiKey
    \/ it.layout # "post"
    \/ it.no_translate

\* const model = config.model || 'deepseek-ai/DeepSeek-V3.2'
Model == IF cfgModel = "" THEN DefaultModel ELSE cfgModel

\* md5(content + title + version); the digest is taken to be collision-free,
\* so it is represented by the string it is computed from
Digest(content, title, version) == content \o title \o version

\* md5(data.content + (data.title || '') + CACHE_VERSION)
Fingerprint(content, title) == Digest(content, title, CACHE_VERSION)

Record(hash, model, originalTitle, translatedTitle, wrappedContent) ==
    [hash |-> hash, model |-> model, originalTitle |-> originalTitle,
     translatedTitle |-> translatedTitle, wrappedContent |-> wrappedContent]

\* storage.get(source) === undefined
NoRecord == Record(<<>>, "", <<>>, <<>>, <<>>)

EmptyCache == [s \in Sources |-> NoRecord]

\* a buggy variant of IsHit: the model of the record is not compared
IsHitIgnoringModel(cached, hash, model) == cached # NoRecord /\ cached.hash = hash

\* cached && cached.hash === contentHash && cached.model === model
IsHit(cached, hash, model) ==
    cached # NoRecord /\ cached.hash = hash /\ cached.model = model

\* wrapContent: title script, zh container with the original, en container
\* with the translation, blank lines around the embedded content
wrapContent(originalContent, translatedContent, originalTitle, translatedTitle) ==
    <<"<script>zh=">> \o originalTitle \o <<";en=">> \o translatedTitle
        \o <<"</script>", "", "<div zh>", "">> \o originalContent
        \o <<"", "</div>", "<div en>", "">> \o translatedContent
        \o <<"", "</div>">>

\* what the backend answered, as translateContent sees it: raw is
\* choices[0].message.content being non-empty, title and content are the
\* captures between the markers (<<>> when a marker is missing or nothing is
\* captured), valid is the verdict of validateTranslatedContent
Reply(raw, title, content, valid) ==
    [raw |-> raw, title |-> title, content |-> content, valid |-> valid]

Replies ==
    { Reply(TRUE, <<"T">>, <<"e">>, TRUE),
      Reply(TRUE, <<>>, <<"e">>, TRUE),
      Reply(FALSE, <<>>, <<>>, TRUE),
      Reply(TRUE, <<"T">>, <<>>, TRUE),
      Reply(TRUE, <<"T">>, <<"e">>, FALSE) }

\* translateContent after fetchWithRetry resolved: null, a thrown validation
\* error, or the translated title and content
TranslateResult(reply, title) ==
    IF ~reply.raw THEN [kind |-> "null", title |-> <<>>, content |-> <<>>]
    ELSE IF reply.content = <<>> THEN [kind |-> "null", title |-> <<>>, content |-> <<>>]
    ELSE IF ~reply.valid THEN [kind |-> "throw", title |-> <<>>, content |-> <<>>]
    ELSE [kind |-> "ok",
          title |-> IF reply.title = <<>> THEN title ELSE reply.title,
          content |-> reply.content]

\* no reply was received (fetchWithRetry has not resolved)
NoReply == [raw |-> FALSE, title |-> <<>>, content |-> <<>>, valid |-> FALSE]

NoTranslation == [title |-> <<>>, content |-> <<>>]
NoReturn == [title |-> <<>>, content |-> <<>>]
NoLog == [level |-> "none", title |-> <<>>]

\* cache files a previous run can have left behind: none, a record of a.md,
\* the same record written before originalTitle existed, and the same record
\* written under an earlier CACHE_VERSION
InitialFiles ==
    { EmptyCache,
      [EmptyCache EXCEPT !["a.md"] =
          Record(Fingerprint(<<"b">>, <<"t">>), DefaultModel, <<"t">>, <<"T">>,
                 wrapContent(<<"b">>, <<"e">>, <<"t">>, <<"T">>))],
      [EmptyCache EXCEPT !["a.md"] =
          Record(Fingerprint(<<"b">>, <<"t">>), DefaultModel, <<>>, <<"T">>,
                 wrapContent(<<"b">>, <<"e">>, <<"t">>, <<"T">>))],
      [EmptyCache EXCEPT !["a.md"] =
          Record(Digest(<<"b">>, <<"t">>, <<"v0">>), DefaultModel, <<"t">>, <<"T">>,
                 wrapContent(<<"b">>, <<"e">>, <<"t">>, <<"T">>))] }

\* rows the remote table can hold when load() reads it
RemoteRowSets ==
    { EmptyCache,
      [EmptyCache EXCEPT !["b.md"] =
          Record(Fingerprint(<<"b">>, <<"t">>), DefaultModel, <<"t">>, <<"R">>,
                 wrapContent(<<"b">>, <<"r">>, <<"t">>, <<"R">>))] }

\* a buggy variant of MergeRows: a row only fills a key the map does not have
MergeRowsLocalWins(c, rows) ==
    [s \in Sources |-> IF c[s] # NoRecord THEN c[s] ELSE rows[s]]

\* res.rows.forEach(row => { this.cache[row.key] = row.value })
MergeRows(c, rows) ==
    [s \in Sources |-> IF rows[s] # NoRecord THEN rows[s] ELSE c[s]]

\* the messages Storage.save can log
LocalSaveError == "Local Save Error"
DbSaveError == "DB Save Error"

\* the messages Storage.initDb and Storage.load can log
DbInitError == "DB Init Error"
DbLoadError == "DB Load Error"

SaveIds == 1..NSaves
NoSave == [phase |-> "idle", key |-> "", rec |-> NoRecord]

\* the sources next to which a hand-authored translation file (<name>.en.md)
\* exists: fs.existsSync(getManualTranslationPath(source, sourceDir))
ManualTranslations == {"b.md"}

\* no plugin is configured and no invocation of the filter is under way
StoreIdle ==
    /\ cfg = "absent"
    /\ apiKey = FALSE
    /\ cfgModel = ""
    /\ isDbEnabled = FALSE
    /\ cache = EmptyCache
    /\ cacheFile = EmptyCache
    /\ loadState = "none"
    /\ globalTitlePairs = <<>>
    /\ loadCalls = 0
    /\ isClosed = FALSE
    /\ pool = "none"
    /\ slog = {}
    /\ saves = [k \in SaveIds |-> NoSave]
    /\ remote = EmptyCache

HookIdle ==
    /\ hpc = [h \in Invs |-> "idle"]
    /\ item = [h \in Invs |-> NoItem]
    /\ ret = [h \in Invs |-> NoReturn]
    /\ path = [h \in Invs |-> "none"]
    /\ calls = [h \in Invs |-> 0]
    /\ translated = [h \in Invs |-> NoTranslation]
    /\ logged = [h \in Invs |-> NoLog]
    /\ answered = [h \in Invs |-> NoReply]

\* no text function has been applied
TextIdle ==
    /\ tfn = "none"
    /\ tin = <<>>
    /\ tout = [kind |-> "none"]

CallersIdle ==
    /\ pc = [c \in Callers |-> "idle"]
    /\ delivered = [c \in Callers |-> NoOutcome]
    /\ queueOrder = <<>>
    /\ startOrder = <<>>

\* (config && config.max_concurrency) || 2 ; 0 stands for an unset (falsy) value
EffectiveLimit(maxConcurrency) ==
    IF maxConcurrency = 0 THEN DefaultLimit ELSE maxConcurrency

\* ------------------------------------------------------------------------
\* createConcurrencyLimiter
\* ------------------------------------------------------------------------

\* the limiters of the repository: createConcurrencyLimiter, the inline
\* runWithLimit that reads the limit at each call, and the inline runWithLimit
\* whose test is "activeCount >= config.max_concurrency || 2"
Variants == {"createConcurrencyLimiter", "runWithLimit", "runWithLimit308"}

\* a number used as a condition
Truthy(n) == n # 0

\* if (activeCount >= limit) await new Promise(resolve => waitingQueue.push(resolve))
\* in runWithLimit308 the test is (activeCount >= config.max_concurrency) || 2
MustWait ==
    IF variant = "runWithLimit308"
       THEN (activeCount >= limit) \/ Truthy(DefaultLimit)
       ELSE activeCount >= limit

\* a buggy variant of Shift: takes the most recent waiter (Array.pop)
Pop(q) == [first |-> q[Len(q)], rest |-> SubSeq(q, 1, Len(q) - 1)]

\* Array.prototype.shift: removes and returns the first element
Shift(q) == [first |-> Head(q), rest |-> Tail(q)]

\* finally: waitingQueue.shift() when the queue is not empty
QueueAfterRelease ==
    IF Len(waitingQueue) > 0 THEN Shift(waitingQueue).rest ELSE waitingQueue

\* a buggy variant of MicrotasksAfterRelease: the shifted resolver is never called
MicrotasksNoWake == microtasks

\* finally: nextResolve() schedules the continuation of the shifted waiter
MicrotasksAfterRelease ==
    IF Len(waitingQueue) > 0
       THEN Append(microtasks, Shift(waitingQueue).first)
       ELSE microtasks

\* a buggy variant of Run: a caller that does not have to wait starts fn()
\* without counting itself
RunUncounted(c) ==
    /\ pc[c] = "idle"
    /\ IF MustWait
          THEN /\ waitingQueue' = Append(waitingQueue, c)
               /\ queueOrder' = Append(queueOrder, c)
               /\ pc' = [pc EXCEPT ![c] = "queued"]
               /\ UNCHANGED <<activeCount, startOrder>>
          ELSE /\ startOrder' = Append(startOrder, c)
               /\ pc' = [pc EXCEPT ![c] = "running"]
               /\ UNCHANGED <<activeCount, waitingQueue, queueOrder>>
    /\ UNCHANGED <<limit, variant, microtasks, delivered>>
    /\ UNCHANGED <<fetchVars, storeVars, hookVars, textVars>>

\* a caller invokes run(fn): runs synchronously up to its first await
Run(c) ==
    /\ pc[c] = "idle"
    /\ IF MustWait
          THEN /\ waitingQueue' = Append(waitingQueue, c)
               /\ queueOrder' = Append(queueOrder, c)
               /\ pc' = [pc EXCEPT ![c] = "queued"]
               /\ UNCHANGED <<activeCount, startOrder>>
          ELSE /\ activeCount' = activeCount + 1
               /\ startOrder' = Append(startOrder, c)
               /\ pc' = [pc EXCEPT ![c] = "running"]
               /\ UNCHANGED <<waitingQueue, queueOrder>>
    /\ UNCHANGED <<limit, variant, microtasks, delivered>>
    /\ UNCHANGED <<fetchVars, storeVars, hookVars, textVars>>

\* the continuation of a resolved waiter runs: activeCount++ ; fn()
Resume ==
    /\ Len(microtasks) > 0
    /\ LET c == Head(microtasks) IN
          /\ activeCount' = activeCount + 1
          /\ startOrder' = Append(startOrder, c)
          /\ pc' = [pc EXCEPT ![c] = "running"]
    /\ microtasks' = Tail(microtasks)
    /\ UNCHANGED <<limit, variant, waitingQueue, delivered, queueOrder>>
    /\ UNCHANGED <<fetchVars, storeVars, hookVars, textVars>>

\* a buggy variant of Settle: the slot is released after "return await fn()"
\* instead of in a finally block, so a raising fn keeps its slot
SettleNoFinally(c, k) ==
    /\ pc[c] = "running"
    /\ activeCount' = IF k = "ok" THEN activeCount - 1 ELSE activeCount
    /\ waitingQueue' = IF k = "ok" THEN QueueAfterRelease ELSE waitingQueue
    /\ microtasks' = IF k = "ok" THEN MicrotasksAfterRelease ELSE microtasks
    /\ pc' = [d \in Callers |->
                IF d = c THEN "done"
                ELSE IF k = "ok" /\ Len(waitingQueue) > 0 /\ d = Shift(waitingQueue).first
                     THEN "woken"
                ELSE pc[d]]
    /\ delivered' = [delivered EXCEPT ![c] = [op |-> c, kind |-> k]]
    /\ UNCHANGED <<limit, variant, queueOrder, startOrder>>
    /\ UNCHANGED <<fetchVars, storeVars, hookVars, textVars>>

\* fn() of caller c settles with kind k: the finally block runs, then the
\* promise of run(fn) settles with fn's outcome
Settle(c, k) ==
    /\ pc[c] = "running"
    /\ activeCount' = activeCount - 1
    /\ waitingQueue' = QueueAfterRelease
    /\ microtasks' = MicrotasksAfterRelease
    /\ pc' = [d \in Callers |->
                IF d = c THEN "done"
                ELSE IF Len(waitingQueue) > 0 /\ d = Shift(waitingQueue).first THEN "woken"
                ELSE pc[d]]
    /\ delivered' = [delivered EXCEPT ![c] = [op |-> c, kind |-> k]]
    /\ UNCHANGED <<limit, variant, queueOrder, startOrder>>
    /\ UNCHANGED <<fetchVars, storeVars, hookVars, textVars>>

\* a limiter right after createConcurrencyLimiter(l)
LimiterCreated(l) ==
    /\ variant = "createConcurrencyLimiter"
    /\ limit = l
    /\ activeCount = 0
    /\ waitingQueue = <<>>
    /\ microtasks = <<>>

NoError == [attempt |-> 0, kind |-> "none"]

\* no call of fetchWithRetry is under way
FetchIdle ==
    /\ retries = 0
    /\ loopI = 0
    /\ fphase = "idle"
    /\ timerArmed = FALSE
    /\ elapsed = 0
    /\ attempts = 0
    /\ errors = <<>>
    /\ ferror = NoError
    /\ fresult = 0
    /\ delay = 0

InitLimiter ==
    /\ \E m \in 0..MaxConcurrency : LimiterCreated(EffectiveLimit(m))
    /\ CallersIdle
    /\ FetchIdle
    /\ StoreIdle
    /\ HookIdle
    /\ TextIdle

NextLimiter ==
    \/ \E c \in Callers : Run(c)
    \/ Resume
    \/ \E c \in Callers, k \in Kinds : Settle(c, k)

SpecLimiter == InitLimiter /\ [][NextLimiter]_vars

\* every fn() eventually settles and every scheduled continuation eventually runs
FairSpecLimiter ==
    /\ SpecLimiter
    /\ WF_vars(Resume)
    /\ \A c \in Callers : WF_vars(\E k \in Kinds : Settle(c, k))

\* any limiter of the repository, before its first caller
InitVariants ==
    /\ variant \in Variants
    /\ \E m \in 0..MaxConcurrency : limit = EffectiveLimit(m)
    /\ activeCount = 0
    /\ waitingQueue = <<>>
    /\ microtasks = <<>>
    /\ CallersIdle
    /\ FetchIdle
    /\ StoreIdle
    /\ HookIdle
    /\ TextIdle

SpecVariants == InitVariants /\ [][NextLimiter]_vars

Running == {c \in Callers : pc[c] = "running"}

\* ------------------------------------------------------------------------
\* fetchWithRetry
\* ------------------------------------------------------------------------
ErrorKinds == {"abort", "network", "http", "json"}
Jitters == {0, JitterRangeMs \div 2, JitterRangeMs - 1}    \* Math.random() * 1000, sampled

\* a buggy variant of IsFinalAttempt: gives up one attempt early
IsFinalAttemptEarly(idx, r) == idx + 1 >= r

\* if (i === retries) throw err
IsFinalAttempt(idx, r) == idx = r

\* a buggy variant of BackoffDelay: the wait does not grow with the attempt
BackoffDelayFlat(idx, jitter) == BackoffStepMs + jitter

\* const delay = (i + 1) * 2000 + Math.random() * 1000
BackoffDelay(idx, jitter) == (idx + 1) * BackoffStepMs + jitter

\* top of the loop body: new controller, timer armed, fetch() invoked
AttemptStarts(idx) ==
    /\ loopI' = idx
    /\ fphase' = "fetching"
    /\ timerArmed' = TRUE
    /\ elapsed' = 0
    /\ attempts' = attempts + 1

\* catch (err): rethrow on the final attempt, otherwise wait before the next
AttemptFails(kind) ==
    LET err == [attempt |-> loopI + 1, kind |-> kind] IN
    /\ errors' = Append(errors, err)
    /\ IF IsFinalAttempt(loopI, retries)
          THEN /\ fphase' = "rejected"
               /\ ferror' = err
               /\ delay' = delay
          ELSE /\ fphase' = "backoff"
               /\ ferror' = ferror
               /\ \E j \in Jitters : delay' = BackoffDelay(loopI, j)
    /\ UNCHANGED <<retries, loopI, elapsed, attempts, fresult>>

\* fetchWithRetry(url, options, r) is called: i = 0, first attempt starts
FetchCall(r) ==
    /\ fphase = "idle"
    /\ retries' = r
    /\ AttemptStarts(0)
    /\ UNCHANGED <<errors, ferror, fresult, delay>>
    /\ UNCHANGED <<limiterVars, storeVars, hookVars, textVars>>

\* time passes during an attempt; a pending timer fires no later than its deadline
Tick ==
    /\ fphase \in {"fetching", "reading"}
    /\ elapsed < MaxElapsed
    /\ ~(timerArmed /\ elapsed >= TimeoutTicks)
    /\ elapsed' = elapsed + 1
    /\ UNCHANGED <<retries, loopI, fphase, timerArmed, attempts, errors, ferror,
                   fresult, delay>>
    /\ UNCHANGED <<limiterVars, storeVars, hookVars, textVars>>

\* the timer fires: controller.abort() makes the pending fetch() reject
TimerFires ==
    /\ fphase = "fetching"
    /\ timerArmed
    /\ elapsed >= TimeoutTicks
    /\ timerArmed' = FALSE
    /\ AttemptFails("abort")
    /\ UNCHANGED <<limiterVars, storeVars, hookVars, textVars>>

\* fetch() resolves with a response: clearTimeout, then the status check
FetchResponds(ok) ==
    /\ fphase = "fetching"
    /\ timerArmed' = FALSE
    /\ IF ok
          THEN /\ fphase' = "reading"
               /\ UNCHANGED <<retries, loopI, elapsed, attempts, errors, ferror,
                              fresult, delay>>
          ELSE AttemptFails("http")
    /\ UNCHANGED <<limiterVars, storeVars, hookVars, textVars>>

\* fetch() rejects (network fault): the catch block runs, the timer is not cleared
FetchRejects ==
    /\ fphase = "fetching"
    /\ AttemptFails("network")
    /\ UNCHANGED timerArmed
    /\ UNCHANGED <<limiterVars, storeVars, hookVars, textVars>>

\* the timer of an attempt whose fetch() already rejected fires: no effect
StaleTimerFires ==
    /\ fphase \in {"backoff", "rejected"}
    /\ timerArmed
    /\ timerArmed' = FALSE
    /\ UNCHANGED <<retries, loopI, fphase, elapsed, attempts, errors, ferror,
                   fresult, delay>>
    /\ UNCHANGED <<limiterVars, storeVars, hookVars, textVars>>

\* a buggy variant of JsonResolves: the parsed body is not returned from the
\* loop, which goes on to the next attempt while there is one
JsonResolvesNoReturn ==
    /\ fphase = "reading"
    /\ fresult' = loopI + 1
    /\ IF loopI < retries
          THEN /\ AttemptStarts(loopI + 1)
               /\ UNCHANGED <<retries, errors, ferror, delay>>
          ELSE /\ fphase' = "resolved"
               /\ UNCHANGED <<retries, loopI, timerArmed, elapsed, attempts, errors,
                              ferror, delay>>
    /\ UNCHANGED <<limiterVars, storeVars, hookVars, textVars>>

\* response.json() resolves: return the parsed body
JsonResolves ==
    /\ fphase = "reading"
    /\ fphase' = "resolved"
    /\ fresult' = loopI + 1
    /\ UNCHANGED <<retries, loopI, timerArmed, elapsed, attempts, errors, ferror, delay>>
    /\ UNCHANGED <<limiterVars, storeVars, hookVars, textVars>>

\* response.json() rejects (body is not JSON): caught like any other failure
JsonRejects ==
    /\ fphase = "reading"
    /\ AttemptFails("json")
    /\ UNCHANGED timerArmed
    /\ UNCHANGED <<limiterVars, storeVars, hookVars, textVars>>

\* the backoff wait is over: i++ and the next attempt starts
BackoffDone ==
    /\ fphase = "backoff"
    /\ AttemptStarts(loopI + 1)
    /\ UNCHANGED <<retries, errors, ferror, fresult, delay>>
    /\ UNCHANGED <<limiterVars, storeVars, hookVars, textVars>>

InitFetch ==
    /\ LimiterCreated(DefaultLimit)
    /\ CallersIdle
    /\ FetchIdle
    /\ StoreIdle
    /\ HookIdle
    /\ TextIdle

NextFetch ==
    \/ \E r \in 0..MaxRetries : FetchCall(r)
    \/ Tick
    \/ TimerFires
    \/ \E ok \in BOOLEAN : FetchResponds(ok)
    \/ FetchRejects
    \/ StaleTimerFires
    \/ JsonResolves
    \/ JsonRejects
    \/ BackoffDone

SpecFetch == InitFetch /\ [][NextFetch]_vars

\* ------------------------------------------------------------------------
\* Storage.save / Storage.load and the before_post_render filter
\* ------------------------------------------------------------------------

\* Storage.save: this.cache[source] = data
CacheAfterSave(source, rec) == [cache EXCEPT ![source] = rec]

\* a buggy variant of FileAfterSave: only the saved record is written into the
\* file (a delta), not the whole in-memory map
FileAfterSaveDelta(source, rec, writeOk) ==
    IF writeOk THEN [cacheFile EXCEPT ![source] = rec] ELSE cacheFile

\* Storage.save: fs.writeFileSync(cacheFile, JSON.stringify(this.cache)) writes
\* the whole map, or throws (logged) and leaves the file as it was
FileAfterSave(source, rec, writeOk) ==
    IF writeOk THEN CacheAfterSave(source, rec) ELSE cacheFile

\* Storage.save: catch (e) { hexo.log.error(`Local Save Error: ...`) }
SlogAfterWrite(writeOk) == IF writeOk THEN slog ELSE slog \cup {LocalSaveError}

\* Storage.save: if (this.isDbEnabled && !this.isClosed) await this.pool.query(INSERT ...)
IssuesUpsert == isDbEnabled /\ ~isClosed

\* Storage.save: catch (e) { if (!this.isClosed) hexo.log.error(`DB Save Error: ...`) }
SlogAfterUpsert(upsertOk) ==
    IF ~upsertOk /\ ~isClosed THEN slog \cup {DbSaveError} ELSE slog

\* a buggy variant of SaveRejects: a rejected upsert is rethrown to the caller
SaveRejectsOnRemoteError(upsertOk) == ~upsertOk

\* whether the promise of Storage.save rejects: both the local write and the
\* upsert sit in try/catch blocks that only log
SaveRejects(upsertOk) == FALSE

\* a buggy variant of NeedsLoad: every invocation calls storage.load()
NeedsLoadAlways == TRUE

\* if (!loadPromise) loadPromise = storage.load()
NeedsLoad == loadState = "none"

\* a buggy variant of HitReturn: the cached translation is not applied
HitReturnOriginal(it, cached) == [title |-> it.title, content |-> it.content]

\* a buggy variant of Backfilled: data.title is read after it was overwritten
\* with cached.translatedTitle
BackfilledAfterOverwrite(it, cached) ==
    [cached EXCEPT !.originalTitle = cached.translatedTitle]

\* const originalTitle = data.title (before data.title is overwritten);
\* cached.originalTitle = originalTitle
Backfilled(it, cached) == [cached EXCEPT !.originalTitle = it.title]

\* cache hit: data.title = cached.translatedTitle; data.content = cached.wrappedContent
HitReturn(it, cached) ==
    [title |-> cached.translatedTitle, content |-> cached.wrappedContent]

\* a buggy variant of NewRecord: the bodies are handed to wrapContent in the
\* wrong order
NewRecordSwapped(it, result) ==
    Record(Fingerprint(it.content, it.title), Model, it.title, result.title,
           wrapContent(result.content, it.content, it.title, result.title))

\* the record the filter stores after a successful translation
NewRecord(it, result) ==
    Record(Fingerprint(it.content, it.title), Model, it.title, result.title,
           wrapContent(it.content, result.content, it.title, result.title))

\* runWithLimit's finally block, for the positions of the filter invocations
HpcAfterRelease(h, position) ==
    [g \in Invs |->
        IF g = h THEN position
        ELSE IF Len(waitingQueue) > 0 /\ g = Shift(waitingQueue).first THEN "woken"
        ELSE hpc[g]]

\* runWithLimit(fn) returns: activeCount--, the next waiter is resolved
Release ==
    /\ activeCount' = activeCount - 1
    /\ waitingQueue' = QueueAfterRelease
    /\ microtasks' = MicrotasksAfterRelease
    /\ UNCHANGED <<limit, variant>>

\* the filter is invoked with a data object: it returns at once when the item
\* is to be skipped, otherwise it creates loadPromise if needed and awaits it
Invoke(h, it) ==
    /\ hpc[h] = "idle"
    /\ item' = [item EXCEPT ![h] = it]
    /\ IF Skipped(it)
          THEN /\ hpc' = [hpc EXCEPT ![h] = "returned"]
               /\ path' = [path EXCEPT ![h] = "skipped"]
               /\ ret' = [ret EXCEPT ![h] = [title |-> it.title, content |-> it.content]]
               /\ UNCHANGED loadState
               /\ UNCHANGED loadCalls
          ELSE /\ hpc' = [hpc EXCEPT ![h] = "awaitLoad"]
               /\ loadState' = IF NeedsLoad
                                  THEN (IF isDbEnabled THEN "loading" ELSE "loaded")
                                  ELSE loadState
               /\ loadCalls' = IF NeedsLoad THEN loadCalls + 1 ELSE loadCalls
               /\ UNCHANGED <<path, ret>>
    /\ UNCHANGED <<calls, translated, logged, answered>>
    /\ UNCHANGED <<cfg, apiKey, cfgModel, isDbEnabled, cache, cacheFile, globalTitlePairs>>
    /\ UNCHANGED <<isClosed, pool, remote, slog, saves>>
    /\ UNCHANGED <<limiterVars, fetchVars, textVars>>

\* Storage.load with the remote tier enabled: initDb, then the SELECT whose
\* rows overwrite the in-memory records; either query can fail (logged)
LoadCompletes(initOk, queryOk, rows) ==
    /\ loadState = "loading"
    /\ loadState' = "loaded"
    /\ isDbEnabled' = initOk
    /\ cache' = IF queryOk THEN MergeRows(cache, rows) ELSE cache
    /\ UNCHANGED <<cfg, apiKey, cfgModel, cacheFile, globalTitlePairs>>
    /\ UNCHANGED <<loadCalls, isClosed, pool, remote, slog, saves>>
    /\ UNCHANGED <<limiterVars, fetchVars, hookVars, textVars>>

\* a buggy variant of Lookup: the cache lookup sits inside runWithLimit, so a
\* cache hit waits for a slot like a translation
LookupHitThroughLimiter(h, writeOk) ==
    /\ hpc[h] = "awaitLoad"
    /\ loadState = "loaded"
    /\ LET it == item[h]
           contentHash == Fingerprint(it.content, it.title)
           cached == cache[it.source]
           backfilled == Backfilled(it, cached)
       IN IF IsHit(cached, contentHash, Model)
             THEN /\ IF MustWait
                        THEN /\ waitingQueue' = Append(waitingQueue, h)
                             /\ hpc' = [hpc EXCEPT ![h] = "queued"]
                             /\ UNCHANGED <<ret, path>>
                        ELSE /\ ret' = [ret EXCEPT ![h] = HitReturn(it, cached)]
                             /\ path' = [path EXCEPT ![h] = "hit"]
                             /\ hpc' = [hpc EXCEPT ![h] = "returned"]
                             /\ UNCHANGED waitingQueue
                  /\ writeOk
                  /\ UNCHANGED <<cache, cacheFile, slog>>
                  /\ UNCHANGED <<limit, variant, activeCount, microtasks, pc, delivered,
                                 queueOrder, startOrder, calls>>
             ELSE /\ writeOk
                  /\ IF MustWait
                        THEN /\ waitingQueue' = Append(waitingQueue, h)
                             /\ hpc' = [hpc EXCEPT ![h] = "queued"]
                             /\ UNCHANGED <<activeCount, calls>>
                        ELSE /\ activeCount' = activeCount + 1
                             /\ hpc' = [hpc EXCEPT ![h] = "translating"]
                             /\ calls' = [calls EXCEPT ![h] = 1]
                             /\ UNCHANGED waitingQueue
                  /\ UNCHANGED <<limit, variant, microtasks, pc, delivered, queueOrder, startOrder>>
                  /\ UNCHANGED <<ret, path, cache, cacheFile, slog>>
    /\ UNCHANGED <<item, translated, logged, answered>>
    /\ UNCHANGED <<cfg, apiKey, cfgModel, isDbEnabled, loadState, globalTitlePairs>>
    /\ UNCHANGED <<loadCalls, isClosed, pool, remote, saves>>
    /\ UNCHANGED <<fetchVars, textVars>>

\* after await loadPromise: fingerprint, lookup, then either the cache hit
\* (with the originalTitle backfill of old records) or runWithLimit up to its
\* first await: queued, or admitted with translateContent calling the transport
\* (the remote upsert of the un-awaited backfill save is not followed)
Lookup(h, writeOk) ==
    /\ hpc[h] = "awaitLoad"
    /\ loadState = "loaded"
    /\ LET it == item[h]
           contentHash == Fingerprint(it.content, it.title)
           cached == cache[it.source]
           backfilled == Backfilled(it, cached)
       IN IF IsHit(cached, contentHash, Model)
             THEN /\ ret' = [ret EXCEPT ![h] = HitReturn(it, cached)]
                  /\ path' = [path EXCEPT ![h] = "hit"]
                  /\ hpc' = [hpc EXCEPT ![h] = "returned"]
                  /\ IF cached.originalTitle = <<>>
                        THEN /\ cache' = CacheAfterSave(it.source, backfilled)
                             /\ cacheFile' = FileAfterSave(it.source, backfilled, writeOk)
                             /\ slog' = SlogAfterWrite(writeOk)
                        ELSE /\ writeOk
                             /\ UNCHANGED <<cache, cacheFile, slog>>
                  /\ UNCHANGED <<limiterVars, calls>>
             ELSE /\ writeOk
                  /\ IF MustWait
                        THEN /\ waitingQueue' = Append(waitingQueue, h)
                             /\ hpc' = [hpc EXCEPT ![h] = "queued"]
                             /\ UNCHANGED <<activeCount, calls>>
                        ELSE /\ activeCount' = activeCount + 1
                             /\ hpc' = [hpc EXCEPT ![h] = "translating"]
                             /\ calls' = [calls EXCEPT ![h] = 1]
                             /\ UNCHANGED waitingQueue
                  /\ UNCHANGED <<limit, variant, microtasks, pc, delivered, queueOrder, startOrder>>
                  /\ UNCHANGED <<ret, path, cache, cacheFile, slog>>
    /\ UNCHANGED <<item, translated, logged, answered>>
    /\ UNCHANGED <<cfg, apiKey, cfgModel, isDbEnabled, loadState, globalTitlePairs>>
    /\ UNCHANGED <<loadCalls, isClosed, pool, remote, saves>>
    /\ UNCHANGED <<fetchVars, textVars>>

\* the continuation of a woken invocation runs: activeCount++, fn() starts and
\* translateContent calls the transport
ResumeInvocation ==
    /\ Len(microtasks) > 0
    /\ LET h == Head(microtasks) IN
          /\ hpc' = [hpc EXCEPT ![h] = "translating"]
          /\ calls' = [calls EXCEPT ![h] = 1]
    /\ activeCount' = activeCount + 1
    /\ microtasks' = Tail(microtasks)
    /\ UNCHANGED <<limit, variant, waitingQueue, pc, delivered, queueOrder, startOrder>>
    /\ UNCHANGED <<item, ret, path, translated, logged, answered>>
    /\ UNCHANGED <<fetchVars, storeVars, textVars>>

\* a buggy variant of ReturnUnchanged: there is no catch block, so an error of
\* translateContent rejects the promise of the filter
ReturnRethrows(h, caught) ==
    /\ ret' = [ret EXCEPT ![h] =
                  IF caught THEN ret[h]
                  ELSE [title |-> item[h].title, content |-> item[h].content]]
    /\ path' = [path EXCEPT ![h] = "failed"]
    /\ logged' = logged
    /\ hpc' = HpcAfterRelease(h, IF caught THEN "rejected" ELSE "returned")
    /\ Release
    /\ UNCHANGED <<item, translated>>
    /\ UNCHANGED <<pc, delivered, queueOrder, startOrder>>
    /\ UNCHANGED <<fetchVars, storeVars, textVars>>

\* a buggy variant of ReturnUnchanged: the title pair is pushed outside the
\* if (result) block, so a failed item records one too
ReturnUnchangedRecordingPair(h, caught) ==
    /\ ret' = [ret EXCEPT ![h] = [title |-> item[h].title, content |-> item[h].content]]
    /\ path' = [path EXCEPT ![h] = "failed"]
    /\ logged' = [logged EXCEPT ![h] =
                     IF caught THEN [level |-> "error", title |-> item[h].title] ELSE NoLog]
    /\ globalTitlePairs' =
          Append(globalTitlePairs, [zh |-> item[h].title, en |-> item[h].title])
    /\ hpc' = HpcAfterRelease(h, "returned")
    /\ Release
    /\ UNCHANGED <<item, translated>>
    /\ UNCHANGED <<pc, delivered, queueOrder, startOrder>>
    /\ UNCHANGED <<cfg, apiKey, cfgModel, isDbEnabled, cache, cacheFile, loadState>>
    /\ UNCHANGED <<loadCalls, isClosed, pool, remote, slog, saves>>
    /\ UNCHANGED <<fetchVars, textVars>>

\* the invocation ends without a translation: data is returned as received;
\* the catch block, when it ran, has logged the error with data.title
ReturnUnchanged(h, caught) ==
    /\ ret' = [ret EXCEPT ![h] = [title |-> item[h].title, content |-> item[h].content]]
    /\ path' = [path EXCEPT ![h] = "failed"]
    /\ logged' = [logged EXCEPT ![h] =
                     IF caught THEN [level |-> "error", title |-> item[h].title] ELSE NoLog]
    /\ hpc' = HpcAfterRelease(h, "returned")
    /\ Release
    /\ UNCHANGED <<item, translated>>
    /\ UNCHANGED <<pc, delivered, queueOrder, startOrder>>
    /\ UNCHANGED <<fetchVars, storeVars, textVars>>

\* fetchWithRetry rejects (its attempts are exhausted): the catch block logs
\* and the filter returns data
TransportRejects(h) ==
    /\ hpc[h] = "translating"
    /\ UNCHANGED <<calls, answered>>
    /\ ReturnUnchanged(h, TRUE)

\* fetchWithRetry resolves with a reply that translateContent cannot use: it
\* returns null or validation throws
TransportResolvesUnusable(h, reply) ==
    /\ hpc[h] = "translating"
    /\ TranslateResult(reply, item[h].title).kind # "ok"
    /\ answered' = [answered EXCEPT ![h] = reply]
    /\ UNCHANGED calls
    /\ ReturnUnchanged(h, TranslateResult(reply, item[h].title).kind = "throw")

\* fetchWithRetry resolves with a usable reply: the wrapped artifact is built
\* and storage.save runs up to its await
TransportResolves(h, reply, writeOk) ==
    /\ hpc[h] = "translating"
    /\ LET it == item[h]
           result == TranslateResult(reply, it.title)
           rec == NewRecord(it, result)
       IN /\ result.kind = "ok"
          /\ cache' = CacheAfterSave(it.source, rec)
          /\ cacheFile' = FileAfterSave(it.source, rec, writeOk)
          /\ slog' = SlogAfterWrite(writeOk)
          /\ translated' = [translated EXCEPT ![h] =
                               [title |-> rec.translatedTitle, content |-> rec.wrappedContent]]
    /\ answered' = [answered EXCEPT ![h] = reply]
    /\ hpc' = [hpc EXCEPT ![h] = "saving"]
    /\ UNCHANGED <<item, ret, path, calls, logged>>
    /\ UNCHANGED <<cfg, apiKey, cfgModel, isDbEnabled, loadState, globalTitlePairs>>
    /\ UNCHANGED <<loadCalls, isClosed, pool, remote, saves>>
    /\ UNCHANGED <<limiterVars, fetchVars, textVars>>

\* storage.save has settled (its upsert, when one was issued, succeeded or
\* was rejected): data.title and data.content are replaced, the title pair is
\* recorded, the filter returns and runWithLimit releases; had save rejected,
\* the catch block would log and data would be returned as received
SaveReturns(h, upsertOk) ==
    /\ hpc[h] = "saving"
    /\ upsertOk \/ IssuesUpsert
    /\ slog' = SlogAfterUpsert(upsertOk)
    /\ IF SaveRejects(upsertOk)
          THEN /\ ret' = [ret EXCEPT ![h] =
                             [title |-> item[h].title, content |-> item[h].content]]
               /\ path' = [path EXCEPT ![h] = "failed"]
               /\ logged' = [logged EXCEPT ![h] =
                                [level |-> "error", title |-> item[h].title]]
               /\ UNCHANGED globalTitlePairs
          ELSE /\ ret' = [ret EXCEPT ![h] = translated[h]]
               /\ path' = [path EXCEPT ![h] = "succeeded"]
               /\ globalTitlePairs' =
                     Append(globalTitlePairs,
                            [zh |-> item[h].title, en |-> translated[h].title])
               /\ logged' = [logged EXCEPT ![h] =
                                [level |-> "info", title |-> translated[h].title]]
    /\ hpc' = HpcAfterRelease(h, "returned")
    /\ Release
    /\ UNCHANGED <<item, calls, translated, answered>>
    /\ UNCHANGED <<pc, delivered, queueOrder, startOrder>>
    /\ UNCHANGED <<cfg, apiKey, cfgModel, isDbEnabled, cache, cacheFile, loadState>>
    /\ UNCHANGED <<loadCalls, isClosed, pool, remote, saves>>
    /\ UNCHANGED <<fetchVars, textVars>>

\* one run of the generator: the plugin configuration, the environment and
\* the cache file found at start-up
Deployment(c, key, maxConcurrency, model, db, file) ==
    [cfg |-> c, apiKey |-> key, maxConcurrency |-> maxConcurrency, model |-> model,
     db |-> db, file |-> file]

FileWithRecord == CHOOSE f \in InitialFiles :
    f["a.md"].hash = Fingerprint(<<"b">>, <<"t">>) /\ f["a.md"].originalTitle # <<>>
FileWithLegacyRecord == CHOOSE f \in InitialFiles :
    f["a.md"].hash = Fingerprint(<<"b">>, <<"t">>) /\ f["a.md"].originalTitle = <<>>
FileWithOldVersion == CHOOSE f \in InitialFiles :
    f["a.md"].hash = Digest(<<"b">>, <<"t">>, <<"v0">>)

\* the runs that are followed: translation unavailable (no config, disabled,
\* no key), and translation enabled with limit 1 or the default limit, the
\* default or a configured model, with or without the remote tier, over each
\* kind of cache file
Deployments ==
    { Deployment("absent", TRUE, 0, "", FALSE, FileWithRecord),
      Deployment("disabled", TRUE, 0, "", FALSE, FileWithRecord),
      Deployment("enabled", FALSE, 0, "", FALSE, FileWithRecord),
      Deployment("enabled", TRUE, 1, "", FALSE, EmptyCache),
      Deployment("enabled", TRUE, 1, "", FALSE, FileWithRecord),
      Deployment("enabled", TRUE, 1, "", FALSE, FileWithLegacyRecord),
      Deployment("enabled", TRUE, 1, "", FALSE, FileWithOldVersion),
      Deployment("enabled", TRUE, 1, "other-model", FALSE, FileWithRecord),
      Deployment("enabled", TRUE, 0, "", FALSE, EmptyCache),
      Deployment("enabled", TRUE, 1, "", TRUE, EmptyCache) }

\* the plugin module has been evaluated: the Storage constructor has read the
\* cache file, the limiter exists, no invocation of the filter has happened
InitHook ==
    /\ \E d \in Deployments :
          /\ LimiterCreated(EffectiveLimit(d.maxConcurrency))
          /\ cfg = d.cfg
          /\ apiKey = d.apiKey
          /\ cfgModel = d.model
          /\ isDbEnabled = d.db
          /\ cacheFile = d.file
          /\ cache = d.file
          /\ pool = IF d.db THEN "open" ELSE "none"
    /\ CallersIdle
    /\ FetchIdle
    /\ loadState = "none"
    /\ globalTitlePairs = <<>>
    /\ loadCalls = 0
    /\ isClosed = FALSE
    /\ slog = {}
    /\ saves = [k \in SaveIds |-> NoSave]
    /\ remote = EmptyCache
    /\ HookIdle
    /\ TextIdle

NextHook ==
    \/ \E h \in Invs, it \in Items : Invoke(h, it)
    \/ \E initOk, queryOk \in BOOLEAN, rows \in RemoteRowSets :
          LoadCompletes(initOk, queryOk, rows)
    \/ \E h \in Invs, writeOk \in BOOLEAN : Lookup(h, writeOk)
    \/ ResumeInvocation
    \/ \E h \in Invs : TransportRejects(h)
    \/ \E h \in Invs, reply \in Replies : TransportResolvesUnusable(h, reply)
    \/ \E h \in Invs, reply \in Replies, writeOk \in BOOLEAN :
          TransportResolves(h, reply, writeOk)
    \/ \E h \in Invs, upsertOk \in BOOLEAN : SaveReturns(h, upsertOk)

SpecHook == InitHook /\ [][NextHook]_vars

\* ------------------------------------------------------------------------
\* Storage: direct calls of save() racing close()
\* ------------------------------------------------------------------------

\* records handed to save()
SaveRecords ==
    { Record(Fingerprint(<<"b">>, <<"t">>), DefaultModel, <<"t">>, <<"T">>,
             wrapContent(<<"b">>, <<"e">>, <<"t">>, <<"T">>)),
      Record(Fingerprint(<<"b", "t">>, <<"t">>), DefaultModel, <<"t">>, <<"T">>,
             wrapContent(<<"b", "t">>, <<"e">>, <<"t">>, <<"T">>)) }

\* save(key, rec) is called: the in-memory record is set, the whole map is
\* written to the file (a failure is logged), and the upsert is issued when
\* the remote tier is enabled and the store is not closed
StorageSave(k, key, rec, writeOk) ==
    /\ saves[k].phase = "idle"
    /\ cache' = CacheAfterSave(key, rec)
    /\ cacheFile' = FileAfterSave(key, rec, writeOk)
    /\ slog' = SlogAfterWrite(writeOk)
    /\ saves' = [saves EXCEPT ![k] =
                    IF IssuesUpsert
                       THEN [phase |-> "upserting", key |-> key, rec |-> rec]
                       ELSE [phase |-> "done", key |-> key, rec |-> NoRecord]]
    /\ UNCHANGED <<cfg, apiKey, cfgModel, isDbEnabled, loadState, globalTitlePairs>>
    /\ UNCHANGED <<loadCalls, isClosed, pool, remote>>
    /\ UNCHANGED <<limiterVars, fetchVars, hookVars, textVars>>

\* the upsert of a save settles: the row of the key is inserted or updated,
\* or the query is rejected, which is logged unless the store has been closed
\* meanwhile; the promise of save() resolves either way
UpsertSettles(k, upsertOk) ==
    /\ saves[k].phase = "upserting"
    /\ remote' = IF upsertOk THEN [remote EXCEPT ![saves[k].key] = saves[k].rec]
                             ELSE remote
    /\ slog' = SlogAfterUpsert(upsertOk)
    /\ saves' = [saves EXCEPT ![k] = [phase |-> "done", key |-> saves[k].key,
                                       rec |-> NoRecord]]
    /\ UNCHANGED <<cfg, apiKey, cfgModel, isDbEnabled, cache, cacheFile, loadState,
                   globalTitlePairs>>
    /\ UNCHANGED <<loadCalls, isClosed, pool>>
    /\ UNCHANGED <<limiterVars, fetchVars, hookVars, textVars>>

\* the exit handler calls close(): the store is marked closed and, when there
\* is a pool, pool.end() is called
Close ==
    /\ ~isClosed
    /\ isClosed' = TRUE
    /\ pool' = IF pool # "none" THEN "ended" ELSE pool
    /\ UNCHANGED <<cfg, apiKey, cfgModel, isDbEnabled, cache, cacheFile, loadState,
                   globalTitlePairs>>
    /\ UNCHANGED <<loadCalls, slog, saves, remote>>
    /\ UNCHANGED <<limiterVars, fetchVars, hookVars, textVars>>

\* load(): the file is read again when the in-memory map is empty
CacheAfterLocalLoad == IF cache = EmptyCache THEN cacheFile ELSE cache

\* a buggy variant of LoadSettlesAs: the queries of load() are not in a
\* try block, so a failed SELECT rejects the promise of load()
LoadSettlesAsUncaught(queryOk) == IF queryOk THEN "loaded" ELSE "rejected"

\* how the promise of load() settles once the SELECT has settled: the catch
\* block logs, and load() returns this.cache either way
LoadSettlesAs(queryOk) == "loaded"

\* load() is called (once, behind the loadPromise guard): the local part runs,
\* and with the remote tier enabled initDb() issues CREATE TABLE IF NOT EXISTS
StorageLoad ==
    /\ loadState = "none"
    /\ loadCalls' = loadCalls + 1
    /\ cache' = CacheAfterLocalLoad
    /\ loadState' = IF isDbEnabled THEN "initDb" ELSE "loaded"
    /\ UNCHANGED <<cfg, apiKey, cfgModel, isDbEnabled, cacheFile, globalTitlePairs>>
    /\ UNCHANGED <<isClosed, pool, slog, saves, remote>>
    /\ UNCHANGED <<limiterVars, fetchVars, hookVars, textVars>>

\* the CREATE TABLE of initDb() settles: a failure is logged and disables the
\* remote tier; initDb() returns either way and load() issues its SELECT
InitDbSettles(initOk) ==
    /\ loadState = "initDb"
    /\ isDbEnabled' = IF initOk THEN isDbEnabled ELSE FALSE
    /\ slog' = IF initOk THEN slog ELSE slog \cup {DbInitError}
    /\ loadState' = "selecting"
    /\ UNCHANGED <<cfg, apiKey, cfgModel, cache, cacheFile, globalTitlePairs>>
    /\ UNCHANGED <<loadCalls, isClosed, pool, saves, remote>>
    /\ UNCHANGED <<limiterVars, fetchVars, hookVars, textVars>>

\* the SELECT of load() settles: its rows overwrite the in-memory records of
\* their keys, or the failure is logged and the map is left as it is
SelectSettles(queryOk) ==
    /\ loadState = "selecting"
    /\ cache' = IF queryOk THEN MergeRows(cache, remote) ELSE cache
    /\ slog' = IF queryOk THEN slog ELSE slog \cup {DbLoadError}
    /\ loadState' = LoadSettlesAs(queryOk)
    /\ UNCHANGED <<cfg, apiKey, cfgModel, isDbEnabled, cacheFile, globalTitlePairs>>
    /\ UNCHANGED <<loadCalls, isClosed, pool, saves, remote>>
    /\ UNCHANGED <<limiterVars, fetchVars, hookVars, textVars>>

\* what the remote table can hold when the process starts: nothing, a row for
\* b.md only, or rows for a.md and b.md written by another machine
RemoteTables ==
    RemoteRowSets \cup
    { [s \in Sources |->
          Record(Fingerprint(<<"b">>, <<"t">>), DefaultModel, <<"t">>, <<"R">>,
                 wrapContent(<<"b">>, <<"r">>, <<"t">>, <<"R">>))] }

\* a Storage right after its constructor, with or without DATABASE_URL
InitStorage ==
    /\ LimiterCreated(DefaultLimit)
    /\ CallersIdle
    /\ FetchIdle
    /\ HookIdle
    /\ TextIdle
    /\ cfg = "enabled"
    /\ apiKey = TRUE
    /\ cfgModel = ""
    /\ isDbEnabled \in BOOLEAN
    /\ pool = IF isDbEnabled THEN "open" ELSE "none"
    /\ cacheFile \in {EmptyCache, FileWithRecord}
    /\ cache = cacheFile
    /\ remote \in IF isDbEnabled THEN RemoteTables ELSE {EmptyCache}
    /\ loadState = "none"
    /\ globalTitlePairs = <<>>
    /\ loadCalls = 0
    /\ isClosed = FALSE
    /\ slog = {}
    /\ saves = [k \in SaveIds |-> NoSave]

NextStorage ==
    \/ \E k \in SaveIds, key \in Sources, rec \in SaveRecords, writeOk \in BOOLEAN :
          StorageSave(k, key, rec, writeOk)
    \/ \E k \in SaveIds, upsertOk \in BOOLEAN : UpsertSettles(k, upsertOk)
    \/ Close
    \/ StorageLoad
    \/ \E initOk \in BOOLEAN : InitDbSettles(initOk)
    \/ \E queryOk \in BOOLEAN : SelectSettles(queryOk)

SpecStorage == InitStorage /\ [][NextStorage]_vars

\* ------------------------------------------------------------------------
\* Text functions: extractCodeBlocks, restoreCodeBlocks,
\* validateTranslatedContent and the fingerprint, each applied to one input.
\* A text is a sequence of tokens: ordinary text, a fence (three backticks),
\* the literal text of a placeholder, an opening or closing Hexo tag, an HTML
\* tag with a malformed attribute.
\* ------------------------------------------------------------------------
Text == <<"text">>
Fence == <<"fence">>
BadAttr == <<"malformed attribute">>

\* `[CODE_BLOCK_${n}]`
Placeholder(n) == <<"[CODE_BLOCK_]", n>>

\* the matches of `\{%\s*${tag}` and of `\{%\s*end${tag}`
OpenTag(tag) == <<"open", tag>>
CloseTag(tag) == <<"close", tag>>

\* const tagsToCheck = ['note', 'tabs', 'codeblock']
tagsToCheck == <<"note", "tabs", "codeblock">>

SeqsUpTo(S, n) == UNION {[1..k -> S] : k \in 0..n}

\* the position of the fence that closes a match of /```[\s\S]*?```/ which
\* starts at the head of rest (0 when there is none)
ClosingFence(rest) ==
    IF \E j \in 2..Len(rest) : rest[j] = Fence
       THEN CHOOSE j \in 2..Len(rest) :
                rest[j] = Fence /\ \A i \in 2..(j - 1) : rest[i] # Fence
       ELSE 0

\* content.replace(/```[\s\S]*?```/g, match => { codeBlocks.push(match); return placeholder })
RECURSIVE ExtractFrom(_, _, _)
ExtractFrom(rest, out, codeBlocks) ==
    IF rest = <<>>
       THEN [contentWithPlaceholders |-> out, codeBlocks |-> codeBlocks]
    ELSE IF Head(rest) = Fence /\ ClosingFence(rest) # 0
       THEN ExtractFrom(SubSeq(rest, ClosingFence(rest) + 1, Len(rest)),
                        Append(out, Placeholder(Len(codeBlocks))),
                        Append(codeBlocks, SubSeq(rest, 1, ClosingFence(rest))))
    ELSE ExtractFrom(Tail(rest), Append(out, Head(rest)), codeBlocks)

extractCodeBlocks(content) == ExtractFrom(content, <<>>, <<>>)

\* result.split(placeholder).join(originalCode): every occurrence is replaced
RECURSIVE SplitJoin(_, _, _)
SplitJoin(result, placeholder, originalCode) ==
    IF result = <<>> THEN <<>>
    ELSE (IF Head(result) = placeholder THEN originalCode ELSE <<Head(result)>>)
             \o SplitJoin(Tail(result), placeholder, originalCode)

\* codeBlocks.forEach((originalCode, index) => { result = result.split(...).join(...) })
RECURSIVE RestoreFrom(_, _, _)
RestoreFrom(result, codeBlocks, index) ==
    IF index >= Len(codeBlocks) THEN result
    ELSE RestoreFrom(SplitJoin(result, Placeholder(index), codeBlocks[index + 1]),
                     codeBlocks, index + 1)

restoreCodeBlocks(translatedContent, codeBlocks) ==
    RestoreFrom(translatedContent, codeBlocks, 0)

\* (content.match(re) || []).length
RECURSIVE Count(_, _)
Count(content, token) ==
    IF content = <<>> THEN 0
    ELSE (IF Head(content) = token THEN 1 ELSE 0) + Count(Tail(content), token)

Accepted == [kind |-> "ok", error |-> "", tag |-> "", open |-> 0, close |-> 0]
MalformedHtml ==
    [kind |-> "throw", error |-> "LLM generated malformed HTML attributes",
     tag |-> "", open |-> 0, close |-> 0]

\* new Error(`Mismatched Hexo tag: ${tag} (open: ${openCount}, close: ${closeCount})`)
MismatchedTag(tag, openCount, closeCount) ==
    [kind |-> "throw", error |-> "Mismatched Hexo tag", tag |-> tag,
     open |-> openCount, close |-> closeCount]

\* a buggy variant of Mismatched: only a missing closing tag is noticed
MismatchedMissingClose(openCount, closeCount) == openCount > closeCount

\* if (openCount !== closeCount)
Mismatched(openCount, closeCount) == openCount # closeCount

\* for (const tag of tagsToCheck) { ... throw on the first mismatch }
RECURSIVE CheckTagsFrom(_, _)
CheckTagsFrom(content, k) ==
    IF k > Len(tagsToCheck) THEN Accepted
    ELSE LET tag == tagsToCheck[k]
             openCount == Count(content, OpenTag(tag))
             closeCount == Count(content, CloseTag(tag))
         IN IF Mismatched(openCount, closeCount)
               THEN MismatchedTag(tag, openCount, closeCount)
               ELSE CheckTagsFrom(content, k + 1)

\* validateTranslatedContent: the HTML attribute check, then the tag pairs
validateTranslatedContent(content) ==
    IF Count(content, BadAttr) > 0 THEN MalformedHtml ELSE CheckTagsFrom(content, 1)

\* single characters: "{", "%", white space, "/", a word character (\w), "-"
Brace == <<"brace">>
Percent == <<"percent">>
Space == <<"space">>
Slash == <<"slash">>
Word == <<"word">>
Dash == <<"dash">>

\* '&#123;', which the replacement puts where the "{" was
Entity == <<"entity">>

\* \s* : the first position at or after j that holds no white space
RECURSIVE SkipSpaces(_, _)
SkipSpaces(content, j) ==
    IF j <= Len(content) /\ content[j] = Space THEN SkipSpaces(content, j + 1) ELSE j

\* a buggy variant of TagNameFollows: no white space is allowed before the name
TagNameFollowsAtOnce(content, j) ==
    \/ j <= Len(content) /\ content[j] = Word
    \/ j + 1 <= Len(content) /\ content[j] = Slash /\ content[j + 1] = Word

\* \s*\/?\w[\w-]* matches at position j
TagNameFollows(content, j) ==
    LET k == SkipSpaces(content, j)
    IN \/ k <= Len(content) /\ content[k] = Word
       \/ k + 1 <= Len(content) /\ content[k] = Slash /\ content[k + 1] = Word

\* content.replace(/\{%(?!\s*\/?\w[\w-]*)/g, '&#123;%')
RECURSIVE SanitizeFrom(_, _)
SanitizeFrom(content, i) ==
    IF i > Len(content) THEN <<>>
    ELSE <<IF /\ content[i] = Brace
              /\ i + 1 <= Len(content)
              /\ content[i + 1] = Percent
              /\ ~TagNameFollows(content, i + 2)
              THEN Entity
              ELSE content[i]>> \o SanitizeFrom(content, i + 1)

sanitizeHexoTags(content) == SanitizeFrom(content, 1)

Null == [kind |-> "null", content |-> <<>>]

\* translateContent after the reply was parsed: restoreCodeBlocks,
\* validateTranslatedContent (which may throw), sanitizeHexoTags
PostProcess(translatedContent, codeBlocks) ==
    IF translatedContent = <<>> THEN Null
    ELSE LET restored == restoreCodeBlocks(translatedContent, codeBlocks)
         IN IF validateTranslatedContent(restored).kind = "throw"
               THEN [kind |-> "throw", content |-> <<>>]
               ELSE [kind |-> "ok", content |-> sanitizeHexoTags(restored)]

\* the inputs
SanitizedTexts == SeqsUpTo({Brace, Percent, Space, Slash, Word, Dash}, MaxTextLen + 1)
PostBodies == SeqsUpTo({Fence, Brace, Percent, Word, Dash}, MaxTextLen)
BodyTokens == {Text, Fence} \cup {Placeholder(n) : n \in 0..(MaxBlocks - 1)}
Bodies == SeqsUpTo(BodyTokens, MaxTextLen)
TranslatedTexts == SeqsUpTo({Text} \cup {Placeholder(n) : n \in 0..(MaxBlocks - 1)},
                            MaxTextLen - 1)
CodeBlocks == {<<Fence, Text, Fence>>} \cup
              {<<Fence, Placeholder(n), Fence>> : n \in 0..(MaxBlocks - 1)}
CodeBlockLists == SeqsUpTo(CodeBlocks, MaxBlocks)
TagTokens == {Text, BadAttr} \cup {OpenTag(tagsToCheck[k]) : k \in 1..Len(tagsToCheck)}
                 \cup {CloseTag(tagsToCheck[k]) : k \in 1..Len(tagsToCheck)}
TaggedTexts == SeqsUpTo(TagTokens, MaxTextLen - 1)
Chars == {"b", "t"}
FingerprintInputs ==
    [body : SeqsUpTo(Chars, MaxTitleLen + 1) \ {<<>>}, title : SeqsUpTo(Chars, MaxTitleLen),
     version : {CACHE_VERSION, <<"v0">>}]

\* a function returned the text result
Returned(result) == [kind |-> "ok", content |-> result]

\* translateContent's use of the pair on an untouched text: extract, then restore
RoundTrip(body) ==
    /\ tfn = "none"
    /\ tfn' = "roundtrip"
    /\ tin' = body
    /\ tout' = Returned(restoreCodeBlocks(extractCodeBlocks(body).contentWithPlaceholders,
                                          extractCodeBlocks(body).codeBlocks))
    /\ UNCHANGED <<limiterVars, fetchVars, storeVars, hookVars>>

Restore(translatedContent, codeBlocks) ==
    /\ tfn = "none"
    /\ tfn' = "restore"
    /\ tin' = [translatedContent |-> translatedContent, codeBlocks |-> codeBlocks]
    /\ tout' = Returned(restoreCodeBlocks(translatedContent, codeBlocks))
    /\ UNCHANGED <<limiterVars, fetchVars, storeVars, hookVars>>

Validate(content) ==
    /\ tfn = "none"
    /\ tfn' = "validate"
    /\ tin' = content
    /\ tout' = validateTranslatedContent(content)
    /\ UNCHANGED <<limiterVars, fetchVars, storeVars, hookVars>>

\* the contentHash of two items
Fingerprints(x, y) ==
    /\ tfn = "none"
    /\ tfn' = "fingerprint"
    /\ tin' = <<x, y>>
    /\ tout' = [kind |-> "ok",
                 digests |-> <<Digest(x.body, x.title, x.version),
                               Digest(y.body, y.title, y.version)>>]
    /\ UNCHANGED <<limiterVars, fetchVars, storeVars, hookVars>>

Sanitize(content) ==
    /\ tfn = "none"
    /\ tfn' = "sanitize"
    /\ tin' = content
    /\ tout' = Returned(sanitizeHexoTags(content))
    /\ UNCHANGED <<limiterVars, fetchVars, storeVars, hookVars>>

\* translateContent on a body, with a backend that sends the text it was
\* given back between the content markers, every placeholder kept
Translate(content) ==
    /\ tfn = "none"
    /\ tfn' = "translate"
    /\ tin' = content
    /\ tout' = PostProcess(extractCodeBlocks(content).contentWithPlaceholders,
                           extractCodeBlocks(content).codeBlocks)
    /\ UNCHANGED <<limiterVars, fetchVars, storeVars, hookVars>>

InitText ==
    /\ LimiterCreated(DefaultLimit)
    /\ CallersIdle
    /\ FetchIdle
    /\ StoreIdle
    /\ HookIdle
    /\ TextIdle

\* one function is applied to one input, drawn when nothing was applied yet
NextText ==
    \/ tfn = "none" /\ \E body \in Bodies : RoundTrip(body)
    \/ tfn = "none" /\ \E t \in TranslatedTexts, bs \in CodeBlockLists : Restore(t, bs)
    \/ tfn = "none" /\ \E content \in TaggedTexts : Validate(content)
    \/ tfn = "none" /\ \E x, y \in FingerprintInputs : Fingerprints(x, y)
    \/ tfn = "none" /\ \E content \in SanitizedTexts : Sanitize(content)
    \/ tfn = "none" /\ \E content \in PostBodies : Translate(content)

SpecText == InitText /\ [][NextText]_vars

\* ------------------------------------------------------------------------
\* Properties
\* ------------------------------------------------------------------------

\* C1: the number of fn invocations started and not yet settled never exceeds limit
C1_AtMostLimitRunning == Cardinality(Running) <= limit


\* C2: a caller that invokes run() after a settlement that woke a queued caller
\* never starts its operation before that woken caller has started (no caller
\* goes from invocation straight to running while a woken caller is pending)
C2_NoOvertake ==
    [][\A c \in Callers :
          (pc[c] = "idle" /\ pc'[c] = "running") => microtasks = <<>>]_vars

Range(s) == {s[i] : i \in 1..Len(s)}
Pos(s, x) == CHOOSE i \in 1..Len(s) : s[i] = x

\* C3: callers queued by the limiter start in the order in which they were
\* queued: if A was queued before B and B has started, A started before B
C3_QueuedStartInOrder ==
    \A i, j \in 1..Len(queueOrder) :
        (i < j /\ queueOrder[j] \in Range(startOrder)) =>
            /\ queueOrder[i] \in Range(startOrder)
            /\ Pos(startOrder, queueOrder[i]) < Pos(startOrder, queueOrder[j])

\* two callers were queued one after the other and both have started
C3_Witness ==
    /\ Len(queueOrder) >= 2
    /\ queueOrder[1] \in Range(startOrder)
    /\ queueOrder[2] \in Range(startOrder)

\* C4: when every admitted operation eventually settles, every caller that
\* invoked run() is eventually admitted and receives its own operation's
\* outcome; no caller stays queued forever
C4_EveryCallerCompletes ==
    \A c \in Callers :
        (pc[c] # "idle") ~> (pc[c] = "done" /\ delivered[c].op = c)

\* more callers than the limit invoked run(), some were queued, all completed
C4_Witness ==
    /\ NCallers > limit
    /\ Len(queueOrder) >= 1
    /\ \A c \in Callers : pc[c] = "done" /\ delivered[c].op = c

\* C5: when an operation settles, by raising or by returning, the active
\* count is decremented, the head of the wait queue (if any) is woken, and
\* the outcome is delivered to the caller that submitted it and to no other
C5_ReleaseOnEveryExit ==
    [][\A c \in Callers :
          (pc[c] = "running" /\ pc'[c] = "done") =>
              /\ activeCount' = activeCount - 1
              /\ Len(waitingQueue) > 0 =>
                    /\ waitingQueue' = Tail(waitingQueue)
                    /\ microtasks' = Append(microtasks, Head(waitingQueue))
              /\ delivered'[c].op = c
              /\ delivered'[c].kind \in Kinds
              /\ \A d \in Callers \ {c} : delivered'[d] = delivered[d]]_vars

\* an operation raised while a caller was queued, and that caller was woken
C5_Witness ==
    \E c, d \in Callers :
        /\ pc[c] = "done" /\ delivered[c] = [op |-> c, kind |-> "err"]
        /\ pc[d] = "woken"
        /\ activeCount = limit - 1

\* C6: fetchWithRetry never performs more than retries + 1 attempts; once
\* retries + 1 attempts have all failed it has rejected, with the error of
\* the final attempt, and it rejects in no other situation
C6_RetryExhaustion ==
    /\ attempts <= retries + 1
    /\ (Len(errors) = attempts /\ attempts = retries + 1 /\ fphase # "idle") =>
          /\ fphase = "rejected"
          /\ ferror = errors[retries + 1]
          /\ ferror.attempt = retries + 1
    /\ fphase = "rejected" => (Len(errors) = retries + 1 /\ attempts = retries + 1)

\* a call with at least one retry has exhausted its attempts and rejected
C6_Witness ==
    /\ fphase = "rejected"
    /\ retries >= 1
    /\ attempts = retries + 1
    /\ ferror = errors[Len(errors)]

\* C7: an attempt that has not produced its parsed result within the timeout
\* of its start is no longer pending (it was cancelled and counted as failed)
C7_AttemptBoundedByTimeout ==
    fphase \in {"fetching", "reading"} => elapsed <= TimeoutTicks

\* C8: an item that lacks a body or opts out, or whose layout is not 'post',
\* and any item when translation is disabled or the API key is absent, is
\* returned with title and body as received, without a transport call
C8_SkippedReturnedUnchanged ==
    \A h \in Invs :
        (/\ hpc[h] # "idle"
         /\ \/ item[h].content = <<>>
            \/ cfg \in {"absent", "disabled"}
            \/ ~apiKey
            \/ item[h].layout # "post"
            \/ item[h].no_translate) =>
            /\ hpc[h] = "returned"
            /\ ret[h] = [title |-> item[h].title, content |-> item[h].content]
            /\ calls[h] = 0

\* with translation enabled and a key present, a post that opts out, a page
\* and an item without body have each been returned
C8_Witness ==
    /\ cfg = "enabled" /\ apiKey
    /\ \E h \in Invs : hpc[h] = "returned" /\ item[h].no_translate
    /\ \E h \in Invs : hpc[h] = "returned" /\ (item[h].layout = "page" \/ item[h].content = <<>>)

\* C9: when the record stored for a non-skipped item's source has the item's
\* fingerprint and the configured model, the filter returns the record's
\* translatedTitle and wrappedContent and no transport call is made for it
C9_CacheHitServedFromRecord ==
    /\ [][\A h \in Invs :
            (hpc[h] = "awaitLoad" /\ hpc'[h] # "awaitLoad") =>
                LET it == item[h]
                    rec == cache[it.source]
                IN (/\ rec # NoRecord
                    /\ rec.hash = Fingerprint(it.content, it.title)
                    /\ rec.model = Model) =>
                       /\ hpc'[h] = "returned"
                       /\ ret'[h].title = rec.translatedTitle
                       /\ ret'[h].content = rec.wrappedContent
                       /\ calls' = calls]_vars
    /\ [](\A h \in Invs : path[h] = "hit" => calls[h] = 0)

\* a first call succeeded, and a second call with the same source, title and
\* body was served the same artifact from the cache without a transport call
C9_Witness ==
    \E h1, h2 \in Invs :
        /\ path[h1] = "succeeded" /\ path[h2] = "hit"
        /\ item[h1] = item[h2]
        /\ ret[h2] = ret[h1]
        /\ calls[h1] = 1 /\ calls[h2] = 0

\* C10: a non-skipped item whose stored record is missing, or differs from it
\* in hash or in model, is not served from the cache but goes to the limiter
\* and the transport, and when its translation succeeds the record of its
\* source is overwritten with its fingerprint and the configured model
C10_MismatchRetranslates ==
    /\ [][\A h \in Invs :
            /\ (hpc[h] = "awaitLoad" /\ hpc'[h] # "awaitLoad") =>
                  LET it == item[h]
                      rec == cache[it.source]
                  IN (\/ rec = NoRecord
                      \/ rec.hash # Fingerprint(it.content, it.title)
                      \/ rec.model # Model) =>
                         /\ hpc'[h] \in {"queued", "translating"}
                         /\ ret'[h] = ret[h]
                         /\ cache' = cache
            /\ (hpc[h] = "translating" /\ hpc'[h] = "saving") =>
                  /\ cache'[item[h].source].hash = Fingerprint(item[h].content, item[h].title)
                  /\ cache'[item[h].source].model = Model
                  /\ \A s \in Sources \ {item[h].source} : cache'[s] = cache[s]]_vars
    /\ [](\A h \in Invs :
            /\ hpc[h] \in {"translating", "saving"} => calls[h] = 1
            /\ path[h] \in {"succeeded", "failed"} => calls[h] = 1)

\* a.md was translated once with each of its two bodies, and the record of
\* a.md now carries the fingerprint of the second body
C10_Witness ==
    \E h1, h2 \in Invs :
        /\ path[h1] = "succeeded" /\ path[h2] = "succeeded"
        /\ item[h1] = Item("a.md", <<"t">>, <<"b">>, "post", FALSE)
        /\ item[h2] = Item("a.md", <<"t">>, <<"b", "t">>, "post", FALSE)
        /\ cache["a.md"].hash = Fingerprint(<<"b", "t">>, <<"t">>)
        /\ cache["a.md"].model = Model
        /\ cache["a.md"].wrappedContent = ret[h2].content

AsReceived(h) == [title |-> item[h].title, content |-> item[h].content]

\* C11: an item that ends Failed is returned with its original title and its
\* original body, the promise of the filter is never rejected, and the
\* failure of one item leaves every other invocation where it was (apart
\* from waking the next queued one)
C11_FailedReturnedUnchanged ==
    /\ [](\A h \in Invs :
            /\ hpc[h] \in {"idle", "awaitLoad", "queued", "woken", "translating",
                           "saving", "returned"}
            /\ path[h] = "failed" => (hpc[h] = "returned" /\ ret[h] = AsReceived(h)))
    /\ [][\A h \in Invs :
            (path[h] = "none" /\ path'[h] = "failed") =>
                \A g \in Invs \ {h} :
                    /\ \/ hpc'[g] = hpc[g]
                       \/ hpc[g] = "queued" /\ hpc'[g] = "woken"
                    /\ ret'[g] = ret[g]
                    /\ path'[g] = path[g]]_vars

\* one item failed validation and was returned as received, and another item
\* was translated all the same
C11_Witness ==
    \E h, g \in Invs :
        /\ path[h] = "failed" /\ answered[h].raw /\ ~answered[h].valid
        /\ ret[h] = AsReceived(h)
        /\ path[g] = "succeeded" /\ ret[g] # AsReceived(g)

\* C12: every item that ends Failed has an error logged that names its title
C12_FailedLogsError ==
    \A h \in Invs :
        path[h] = "failed" => logged[h] = [level |-> "error", title |-> item[h].title]

\* C13: the step in which an item ends Failed writes nothing: the in-memory
\* map, the cache file, the storage log and the title pairs are left as they
\* were, and the item comes straight from the transport call, never from a
\* save; whatever was stored for its source stays stored
C13_FailedWritesNothing ==
    /\ [][\A h \in Invs :
            (path[h] = "none" /\ path'[h] = "failed") =>
                /\ hpc[h] = "translating"
                /\ cache' = cache
                /\ cacheFile' = cacheFile
                /\ slog' = slog
                /\ globalTitlePairs' = globalTitlePairs]_vars
    /\ [][\A h \in Invs : hpc[h] = "saving" => path'[h] # "failed"]_vars
    /\ [](\A h \in Invs : path[h] = "failed" => translated[h] = NoTranslation)

\* an item whose source has a record from an earlier cache version failed;
\* that record is still in memory and on disk and no title pair exists
C13_Witness ==
    \E h \in Invs :
        /\ path[h] = "failed"
        /\ cache[item[h].source] # NoRecord
        /\ cache[item[h].source].hash # Fingerprint(item[h].content, item[h].title)
        /\ cacheFile = cache
        /\ globalTitlePairs = <<>>

\* C14: a reply that lacks the title markers or the content markers, or
\* whose body segment is empty, never leads to a save or to Succeeded: the
\* item ends Failed and is returned as received
C14_UnmarkedReplyFails ==
    \A h \in Invs :
        (/\ answered[h] # NoReply
         /\ \/ ~answered[h].raw
            \/ answered[h].title = <<>>
            \/ answered[h].content = <<>>) =>
            /\ hpc[h] = "returned"
            /\ path[h] = "failed"
            /\ ret[h] = AsReceived(h)

\* the content of the zh container and of the en container of a wrapped
\* artifact, each set off by blank lines
ZhPart(w) ==
    LET i == CHOOSE i \in 1..Len(w) : w[i] = "<div zh>"
        j == CHOOSE j \in 1..Len(w) : w[j] = "<div en>"
    IN SubSeq(w, i + 2, j - 3)
EnPart(w) ==
    LET j == CHOOSE j \in 1..Len(w) : w[j] = "<div en>"
    IN SubSeq(w, j + 2, Len(w) - 2)

C16_SingleLoad ==
    /\ [](loadCalls <= 1)
    /\ [](\A h \in Invs :
            hpc[h] \in {"awaitLoad", "queued", "woken", "translating", "saving"} =>
                (loadCalls = 1 /\ loadState # "none"))
    /\ [][\A h \in Invs :
            (hpc[h] = "awaitLoad" /\ hpc'[h] # "awaitLoad") =>
                (loadState = "loaded" /\ loadCalls = 1)]_vars
    /\ [][loadState = "loaded" => (loadState' = "loaded" /\ loadCalls' = loadCalls)]_vars

\* two invocations wait for the one load that is still reading the remote table
C16_Witness ==
    \E h, g \in Invs :
        /\ h # g
        /\ hpc[h] = "awaitLoad" /\ hpc[g] = "awaitLoad"
        /\ loadState = "loading"
        /\ loadCalls = 1

\* C17: every save sets the in-memory record of its key, and every local
\* write that changes the file leaves the file equal to the in-memory map of
\* that moment, so the file holds the record of every key saved so far
C17_FileIsWholeMap ==
    [][/\ cacheFile' # cacheFile =>
            /\ cacheFile' = cache'
            /\ \A k \in SaveIds :
                  saves'[k].phase # "idle" => cacheFile'[saves'[k].key] # NoRecord
       /\ \A k \in SaveIds :
            (saves[k].phase = "idle" /\ saves'[k].phase # "idle") =>
                (cache'[saves'[k].key] \in SaveRecords /\ cacheFile' \in {cacheFile, cache'})
      ]_vars

\* two saves of different keys are both waiting for their upsert, and the
\* file holds both records
C17_Witness ==
    \E k, l \in SaveIds :
        /\ saves[k].phase = "upserting" /\ saves[l].phase = "upserting"
        /\ saves[k].key # saves[l].key
        /\ cacheFile = cache
        /\ cacheFile[saves[k].key] # NoRecord /\ cacheFile[saves[l].key] # NoRecord

\* C18: a save whose local write throws or whose upsert is rejected still
\* puts the record in the in-memory map and resolves: the invocation that
\* called it ends Succeeded and returns the translated title and the wrapped
\* body; the failures only add messages to the log
C18_SaveNeverRejects ==
    /\ [][\A h \in Invs :
            /\ (hpc[h] = "translating" /\ hpc'[h] = "saving") =>
                  /\ cache'[item[h].source].translatedTitle = translated'[h].title
                  /\ cache'[item[h].source].wrappedContent = translated'[h].content
                  /\ cache'[item[h].source].hash = Fingerprint(item[h].content, item[h].title)
            /\ (hpc[h] = "saving" /\ hpc'[h] # "saving") =>
                  /\ hpc'[h] = "returned"
                  /\ path'[h] = "succeeded"
                  /\ ret'[h] = translated[h]
                  /\ cache' = cache]_vars
    /\ [](\A h \in Invs : hpc[h] \in {"saving", "returned"} /\ translated[h] # NoTranslation
                             => path[h] \in {"none", "succeeded"})

\* the local write and the upsert of an item's save both failed, the file
\* lacks the record, and the item was returned translated
C18_Witness ==
    \E h \in Invs :
        /\ path[h] = "succeeded"
        /\ slog = {LocalSaveError, DbSaveError}
        /\ cacheFile[item[h].source] = NoRecord
        /\ cache[item[h].source].wrappedContent = ret[h].content
        /\ ret[h].title = cache[item[h].source].translatedTitle

\* C19: a call of save either replaces the record of its key in memory and in
\* the file, or leaves the prior record of the key in both; afterwards the
\* two views hold the same record for the key
C19_SaveAllOrNothing ==
    [][\A k \in SaveIds :
          (saves[k].phase = "idle" /\ saves'[k].phase # "idle") =>
              LET key == saves'[k].key IN
              /\ cache'[key] = cacheFile'[key]
              /\ \/ cache'[key] \in SaveRecords
                 \/ (cache'[key] = cache[key] /\ cacheFile'[key] = cacheFile[key])]_vars

\* C20: once close() has called pool.end(), no upsert is outstanding on the
\* pool, and no save issues an upsert after the store was marked closed
C20_NoUpsertAfterClose ==
    /\ [](pool = "ended" => \A k \in SaveIds : saves[k].phase # "upserting")
    /\ [][\A k \in SaveIds :
            (saves[k].phase = "idle" /\ saves'[k].phase = "upserting") => ~isClosed]_vars

\* C21: when the SELECT of load() succeeds, every key that has a remote row
\* gets the remote value in memory (over a local record, or as a new key) and
\* every key that has none keeps the record it had
C21_RemoteWinsOnLoad ==
    [][(loadState = "selecting" /\ loadState' # "selecting" /\ DbLoadError \notin slog') =>
          \A s \in Sources :
              /\ remote[s] # NoRecord => cache'[s] = remote[s]
              /\ remote[s] = NoRecord => cache'[s] = cache[s]]_vars

\* load() has completed over a file with a record for a.md and a table with
\* other rows for a.md and b.md: a.md has the remote value, b.md was added
C21_Witness ==
    /\ loadState = "loaded"
    /\ DbLoadError \notin slog
    /\ cacheFile["a.md"] # NoRecord /\ remote["a.md"] # NoRecord
    /\ remote["a.md"] # cacheFile["a.md"]
    /\ cache["a.md"] = remote["a.md"]
    /\ cacheFile["b.md"] = NoRecord /\ remote["b.md"] # NoRecord
    /\ cache["b.md"] = remote["b.md"]

\* C22: when the SELECT of load() fails, load() still resolves (it never
\* rejects) and the in-memory map is left exactly as the local load made it:
\* no remote row is merged
C22_LoadSurvivesRemoteFailure ==
    /\ [](loadState \in {"none", "initDb", "selecting", "loaded"})
    /\ [][(loadState = "selecting" /\ loadState' # "selecting" /\ DbLoadError \in slog') =>
             (loadState' = "loaded" /\ cache' = cache /\ cacheFile' = cacheFile)]_vars

\* the SELECT failed while the table held rows the file does not have; load()
\* has resolved with the local data only, and a later save has gone through
C22_Witness ==
    /\ loadState = "loaded"
    /\ DbLoadError \in slog
    /\ remote["b.md"] # NoRecord
    /\ cacheFile["b.md"] = NoRecord /\ cache["b.md"] = NoRecord
    /\ \E k \in SaveIds : saves[k].phase = "done" /\ cache[saves[k].key] \in SaveRecords

\* C27: an item whose source has a hand-authored translation file never
\* reaches the transport
C27_ManualTakesPrecedence ==
    \A h \in Invs : item[h].source \in ManualTranslations => calls[h] = 0

\* C28: once the exit handler has run, the cache file holds every record of
\* the in-memory map
C28_FileHoldsMapAfterExit ==
    isClosed => \A s \in Sources : cache[s] # NoRecord => cacheFile[s] = cache[s]

\* C29: an item that is skipped, or whose record matches, returns in the step
\* that finds this out, without touching the limiter, however many slots are
\* taken; it is never in the wait queue
C29_SkipAndHitBypassLimiter ==
    /\ [][\A h \in Invs :
            /\ (hpc[h] = "idle" /\ hpc'[h] # "idle" /\ Skipped(item'[h])) =>
                  (hpc'[h] = "returned" /\ path'[h] = "skipped" /\ limiterVars' = limiterVars)
            /\ (/\ hpc[h] = "awaitLoad" /\ hpc'[h] # "awaitLoad"
                /\ cache[item[h].source] # NoRecord
                /\ cache[item[h].source].hash = Fingerprint(item[h].content, item[h].title)
                /\ cache[item[h].source].model = Model) =>
                  (hpc'[h] = "returned" /\ path'[h] = "hit" /\ limiterVars' = limiterVars)
          ]_vars
    /\ [](\A h \in Invs :
            path[h] \in {"skipped", "hit"} =>
                /\ hpc[h] = "returned"
                /\ \A i \in 1..Len(waitingQueue) : waitingQueue[i] # h
                /\ \A i \in 1..Len(microtasks) : microtasks[i] # h)

\* every slot is taken by an item that is still translating, and another item
\* has been served from the cache
C29_Witness ==
    \E h, g \in Invs :
        /\ hpc[g] = "translating"
        /\ activeCount >= limit
        /\ path[h] = "hit" /\ hpc[h] = "returned"

\* C30: the wait after failed attempt i is at least (i+1)*2000 ms and less
\* than (i+1)*2000 + 1000 ms, it happens only when i < retries, and the
\* failure of the final attempt rejects without a wait
C30_BackoffWindow ==
    /\ [](fphase = "backoff" =>
            /\ loopI < retries
            /\ delay >= (loopI + 1) * 2000
            /\ delay < (loopI + 1) * 2000 + 1000)
    /\ [][(fphase \in {"fetching", "reading"} /\ Len(errors') = Len(errors) + 1) =>
             IF loopI = retries
                THEN fphase' = "rejected" /\ delay' = delay
                ELSE fphase' = "backoff"]_vars

\* the second attempt failed and fetchWithRetry waits between 4000 and 5000 ms
C30_Witness ==
    /\ fphase = "backoff"
    /\ loopI = 1
    /\ delay >= 4000 /\ delay < 5000


\* the text in which each placeholder token of translatedContent stands for its
\* own block and nothing that was put in is looked at again
RECURSIVE OneForOne(_, _)
OneForOne(translatedContent, codeBlocks) ==
    IF translatedContent = <<>> THEN <<>>
    ELSE (IF \E n \in 0..(Len(codeBlocks) - 1) : Head(translatedContent) = Placeholder(n)
             THEN codeBlocks[(CHOOSE n \in 0..(Len(codeBlocks) - 1) :
                                  Head(translatedContent) = Placeholder(n)) + 1]
             ELSE <<Head(translatedContent)>>)
         \o OneForOne(Tail(translatedContent), codeBlocks)

\* C23: extracting the code blocks of a body and restoring them into the
\* text with placeholders gives back the body exactly, whatever the body holds
C23_RoundTripIsIdentity ==
    tfn = "roundtrip" => tout.content = tin

\* C24: when each block's placeholder stands once in the translated text,
\* restoreCodeBlocks puts each block in its place and leaves what it has put
\* in untouched, a placeholder-looking token inside a restored block included
C24_RestoredTextUntouched ==
    (/\ tfn = "restore"
     /\ \A n \in 0..(Len(tin.codeBlocks) - 1) :
            Count(tin.translatedContent, Placeholder(n)) = 1)
        => tout.content = OneForOne(tin.translatedContent, tin.codeBlocks)

UnbalancedTags(content) ==
    {k \in 1..Len(tagsToCheck) :
        Count(content, OpenTag(tagsToCheck[k])) # Count(content, CloseTag(tagsToCheck[k]))}

C26_FingerprintSeparatesInputs ==
    tfn = "fingerprint" => ((tin[1] = tin[2]) <=> (tout.digests[1] = tout.digests[2]))

\* C31: the effective limit never changes, and in every limiter of the
\* repository a caller that arrives while fewer than the effective limit of
\* operations are active is admitted without being queued
C31_AdmittedBelowLimit ==
    [][/\ limit' = limit
       /\ \A c \in Callers :
              (pc[c] = "idle" /\ pc'[c] # "idle" /\ activeCount < limit)
                  => pc'[c] = "running"]_vars

\* C32: once the transport has answered with a reply that fails parsing
\* (no message, missing title or content markers, empty body segment) or
\* fails validation, the item is Failed and returned, and the transport was
\* handed exactly the one request: nothing is retried
C32_NoRetryAfterBadReply ==
    \A h \in Invs :
        (/\ answered[h] # NoReply
         /\ \/ ~answered[h].raw
            \/ answered[h].title = <<>>
            \/ answered[h].content = <<>>
            \/ ~answered[h].valid) =>
            /\ hpc[h] = "returned"
            /\ path[h] = "failed"
            /\ calls[h] = 1

\* block occurs in content as a run of adjacent tokens
Contains(content, block) ==
    \E i \in 0..(Len(content) - Len(block)) :
        \A j \in 1..Len(block) : content[i + j] = block[j]

\* C33: when the backend kept every placeholder and the item was translated,
\* each fenced code block of the original body stands in the translated
\* content with exactly its original text
C33_CodeBlocksSurvive ==
    (tfn = "translate" /\ tout.kind = "ok") =>
        \A b \in 1..Len(extractCodeBlocks(tin).codeBlocks) :
            Contains(tout.content, extractCodeBlocks(tin).codeBlocks[b])

\* position i of content holds a "{%" that a tag name follows: white space,
\* then an optional "/", then a word character
OpensTag(content, i) ==
    /\ content[i] = Brace
    /\ i + 1 <= Len(content)
    /\ content[i + 1] = Percent
    /\ \E k \in (i + 2)..Len(content) :
           /\ \A j \in (i + 2)..(k - 1) : content[j] = Space
           /\ \/ content[k] = Word
              \/ content[k] = Slash /\ k + 1 <= Len(content) /\ content[k + 1] = Word

StrayBrace(content, i) ==
    /\ content[i] = Brace
    /\ i + 1 <= Len(content)
    /\ content[i + 1] = Percent
    /\ ~OpensTag(content, i)

\* C34: sanitizeHexoTags leaves every "{%" that a tag name follows as it is,
\* puts the entity in place of the "{" of every other "{%", changes nothing
\* else, and applied to its own result it changes nothing
C34_SanitizeEscapesStrayOnly ==
    tfn = "sanitize" =>
        /\ Len(tout.content) = Len(tin)
        /\ \A i \in 1..Len(tin) :
               tout.content[i] = IF StrayBrace(tin, i) THEN Entity ELSE tin[i]
        /\ sanitizeHexoTags(tout.content) = tout.content

\* a text with a "{%" that opens a tag and a stray "{%" was sanitized
C34_Witness ==
    /\ tfn = "sanitize"
    /\ \E i \in 1..Len(tin) : OpensTag(tin, i) /\ tout.content[i] = Brace
    /\ \E i \in 1..Len(tin) : StrayBrace(tin, i) /\ tout.content[i] = Entity

\* C35: a cache hit on a record without originalTitle puts the item's title
\* into that field and leaves hash, model, translatedTitle and wrappedContent
\* as they were; the record is saved (the file then holds it, unless the
\* write failed and was logged); the item is served from the record and no
\* request goes to the transport
C35_LegacyRecordBackfilled ==
    [][\A h \in Invs :
          LET src == item[h].source IN
          (/\ hpc[h] = "awaitLoad"
           /\ path'[h] = "hit"
           /\ cache[src].originalTitle = <<>>) =>
              /\ cache'[src].originalTitle = item[h].title
              /\ cache'[src].hash = cache[src].hash
              /\ cache'[src].model = cache[src].model
              /\ cache'[src].translatedTitle = cache[src].translatedTitle
              /\ cache'[src].wrappedContent = cache[src].wrappedContent
              /\ \A s \in Sources \ {src} : cache'[s] = cache[s]
              /\ cacheFile' = cache' \/ (cacheFile' = cacheFile /\ LocalSaveError \in slog')
              /\ ret'[h] = [title |-> cache[src].translatedTitle,
                            content |-> cache[src].wrappedContent]
              /\ calls'[h] = 0
              /\ hpc'[h] = "returned"]_vars

\* an invocation was served from a record that has just been given its
\* originalTitle in memory, while the file, whose write failed, still holds
\* the record without it
C35_Witness ==
    \E h \in Invs :
        /\ path[h] = "hit"
        /\ calls[h] = 0
        /\ item[h].title # <<>>
        /\ cache[item[h].source].originalTitle = item[h].title
        /\ cacheFile[item[h].source].originalTitle = <<>>
        /\ cacheFile[item[h].source].hash = cache[item[h].source].hash

\* C36: when the body of attempt k (counted from 0) is parsed, fetchWithRetry
\* resolves with the result of that attempt, k + 1 attempts have been made,
\* and from then on no attempt starts and no backoff wait is set
C36_SuccessEndsTheLoop ==
    [][/\ (fphase = "reading" /\ fphase' # "reading" /\ errors' = errors) =>
              /\ fphase' = "resolved"
              /\ fresult' = loopI + 1
              /\ attempts' = loopI + 1
              /\ Len(errors') = loopI
       /\ fphase = "resolved" =>
              /\ fphase' = "resolved"
              /\ attempts' = attempts
              /\ fresult' = fresult
              /\ delay' = delay
              /\ errors' = errors]_vars

\* a call that may retry twice resolved with the result of its second
\* attempt, after one failure
C36_Witness ==
    /\ fphase = "resolved"
    /\ retries = 2
    /\ fresult = 2
    /\ attempts = 2
    /\ Len(errors) = 1

\* C37: the active count is never negative, and whenever no operation is
\* executing and no woken caller is waiting to resume, the active count is 0
\* and the wait queue is empty
C37_QuiescentLimiterIsEmpty ==
    /\ activeCount >= 0
    /\ (Running = {} /\ microtasks = <<>>) =>
           (activeCount = 0 /\ waitingQueue = <<>>)

\* every caller is done, and some of them had to wait in the queue
C37_Witness ==
    /\ \A c \in Callers : pc[c] = "done"
    /\ Len(queueOrder) >= 1
    /\ microtasks = <<>>
    /\ activeCount = 0

\* C38: once initDb() has failed and disabled the remote tier, no remote
\* query is issued: load() does not go on to read the remote table, and no
\* save issues an upsert
C38_NoQueryAfterInitFailure ==
    [][(DbInitError \in slog') =>
          ((loadState' = "selecting" => loadState = "selecting")
           /\ (\A k \in SaveIds :
                  (saves'[k].phase = "upserting" => saves[k].phase = "upserting")))
      ]_vars

====
